---- MODULE Spec2Model ----
(***************************************************************************)
(* rtt-file-logger, src/main.rs: attach to the target's RTT control block  *)
(* (directly, or pinned to the address of the _SEGGER_RTT symbol of a      *)
(* firmware image), bind every configured up channel to an output file,    *)
(* and drain the channels into the files until Ctrl-C.                     *)
(*                                                                         *)
(* The probe/RTT library, the file system and the signal are the           *)
(* environment: each of their calls is a step whose outcome is chosen      *)
(* nondeterministically among the outcomes the call can have.              *)
(***************************************************************************)
EXTENDS Integers, Sequences, FiniteSets

\* ---------------------------------------------------------------- bounds
\* Longest configured channel list.
MaxEntries == 2
\* Most bytes one channel hands out over a run.
MaxData == 2

\* Longest symbol table of a firmware image.
MaxSyms == 3

\* Size of the transfer buffer, main.rs:160.
BufferSize == 1024

\* Byte values of the model; 0 is also what the buffer is initialised with.
Byte == {0, 1}
\* Up channel numbers the target's control block offers.
TargetUp == {0, 1}
Paths == {"out/console.log", "out/events.log"}
\* The entries a configuration is made of: two entries on different channels
\* and files, one that shares a channel with the second and a file with the
\* first, and one on a channel the target does not offer.
ChannelSamples ==
    { [up |-> 0, name |-> "console", path |-> "out/console.log"],
      [up |-> 1, name |-> "events", path |-> "out/events.log"],
      [up |-> 1, name |-> "events2", path |-> "out/console.log"],
      [up |-> 2, name |-> "trace", path |-> "out/events.log"] }

\* A 64-bit value as four 16-bit limbs, most significant first; a 32-bit
\* value as two.
U64Samples == { <<0, 0, 8192, 0>>,      \* 0x0000_0000_2000_0000
                <<0, 1, 8192, 0>>,      \* 0x0000_0001_2000_0000
                <<0, 0, 0, 0>> }
None == <<>>

\* A symbol name as the sequence of its pieces, so that one name can be the
\* prefix or the tail of another; NoName is a symbol whose st_name the
\* string table does not resolve.
Marker == <<"_SEGGER_RTT">>
NoName == <<>>
SymNames == { Marker, <<"_SEGGER_RTT", "_UP">>, <<"x", "_SEGGER_RTT">>, NoName }

Min(a, b) == IF a < b THEN a ELSE b

\* ----------------------------------------------------------------- state
VARIABLES
    pc,         \* position of main
    binary,     \* args.binary.as_ref() of main.rs:116: "unread", "none" or "some"
    image,      \* what the file opened at main.rs:121 holds
    addr,       \* result of get_rtt_symbol, Some(addr) of main.rs:122
    region,     \* argument of ScanRegion::Exact, main.rs:123
    direct,     \* result of Rtt::attach, main.rs:114: "untried", "ok" or "err"
    rtt,        \* "none" or, once main.rs:116 bound it, "attached"
    config,     \* config.rtt_config.channels
    avail,      \* rtt.up_channels(): numbers not taken yet
    collecting, \* the Vec the map/collect of main.rs:143-156 is building
    sinks,      \* the sinks of main.rs:143
    created,    \* paths File::create has created or truncated
    disk,       \* content of the file at each path
    buffer,     \* the leading MaxData cells of the transfer buffer (no read
                \* reaches the others, which stay 0)
    res,        \* res of main.rs:177: "none", "err" or "ok"
    bytes,      \* the count in Ok(bytes)
    idx,        \* position of the for loop of main.rs:173
    running,    \* the AtomicBool
    handler,    \* the Ctrl-C handler is installed
    received,   \* per sink: every non-empty chunk its channel returned, in order
    stopVisits, \* sinks the for loop has stepped to since the handler stored false
    stopPasses  \* passes the for loop has finished since the handler stored false

vars == <<pc, binary, image, direct, addr, region, rtt, config, avail, collecting, sinks,
          created, disk, buffer, res, bytes, idx, running, handler,
          received, stopVisits, stopPasses>>

attachVars == <<addr, region, rtt, binary, direct, image>>
bindVars == <<config, avail, collecting, sinks, created>>
loopVars == <<disk, buffer, res, bytes, idx, running, handler, received,
              stopVisits, stopPasses>>

\* ------------------------------------------------------------- data types
\* struct Channel, main.rs:49-53
Channel == ChannelSamples

SeqsUpTo(S, n) == UNION { [1..k -> S] : k \in 0..n }

\* Every channel list the configuration file can hold.
Configs == SeqsUpTo(Channel, MaxEntries)

\* A symbol of the image's symbol table: its name and st_value.
Sym == [name : SymNames, value : U64Samples]

\* The files --binary can name: one that cannot be read, one that is no
\* ELF image, and ELF images with every symbol table up to MaxSyms.
Images ==
    { [read |-> FALSE, elf |-> FALSE, syms |-> <<>>],
      [read |-> TRUE, elf |-> FALSE, syms |-> <<>>] }
    \cup { [read |-> TRUE, elf |-> TRUE, syms |-> t] : t \in SeqsUpTo(Sym, MaxSyms) }

\* No file is open.
NoImage == [read |-> FALSE, elf |-> FALSE, syms |-> <<>>]

\* struct ChannelSink, main.rs:56-61.  file is the handle File::create
\* returned: the path it was opened on and its write position.
ChannelSink(x) ==
    [channel |-> x.up, name |-> x.name,
     file |-> [path |-> x.path, pos |-> 0], working |-> TRUE]

Init ==
    /\ pc = "direct"
    /\ binary = "unread"
    /\ image = NoImage
    /\ direct = "untried"
    /\ addr = None
    /\ region = None
    /\ rtt = "none"
    /\ config = <<>>
    /\ avail = {}
    /\ collecting = <<>>
    /\ sinks = <<>>
    /\ created = {}
    /\ disk = [p \in Paths |-> <<>>]
    /\ buffer = [k \in 1..MaxData |-> 0]
    /\ res = "none"
    /\ bytes = 0
    /\ idx = 0
    /\ running = TRUE
    /\ handler = FALSE
    /\ received = [i \in 1..MaxEntries |-> <<>>]
    /\ stopVisits = 0
    /\ stopPasses = 0

\* ------------------------------------------------------ attaching to RTT
\* `addr as u32`, main.rs:123: the low 32 bits.
AsU32(a) == <<a[3], a[4]>>

\* The 64-bit value of a 32-bit one.
Widen(r) == <<0, 0, r[1], r[2]>>

\* The arm the match of main.rs:116-132 takes, from the result of
\* Rtt::attach and args.binary.
MatchArmLax(ok, bin) ==
    IF ok \/ bin = "none" THEN "attached" ELSE "open"
MatchArmImageFirst(ok, bin) ==
    IF bin = "some" THEN "open"
    ELSE IF ok THEN "attached"
    ELSE "panic"
MatchArm(ok, bin) ==
    IF ok THEN "attached"
    ELSE IF bin = "some" THEN "open"
    ELSE "panic"

\* main.rs:114-117 and 128-131: Rtt::attach, then the match on its result
\* and on args.binary.
DirectAttach ==
    /\ pc = "direct"
    /\ \E ok \in BOOLEAN, bin \in {"none", "some"} :
         LET arm == MatchArm(ok, bin) IN
         /\ binary' = bin
         /\ direct' = IF ok THEN "ok" ELSE "err"
         /\ pc' = IF arm = "panic" THEN "AttachFailed" ELSE arm
         /\ rtt' = IF arm = "attached" THEN "attached" ELSE rtt
    /\ UNCHANGED <<addr, region, image>>
    /\ UNCHANGED bindVars
    /\ UNCHANGED loopVars

\* main.rs:121: fs::File::open(bin)?
OpenBinary ==
    /\ pc = "open"
    /\ \/ \E f \in Images : image' = f /\ pc' = "scan"
       \/ image' = image /\ pc' = "AttachFailed"
    /\ UNCHANGED <<addr, region, rtt, binary, direct>>
    /\ UNCHANGED bindVars
    /\ UNCHANGED loopVars

\* main.rs:82: name == "_SEGGER_RTT"
IsMarkerPrefix(name) == name # NoName /\ SubSeq(name, 1, 1) = Marker
IsMarker(name) == name = Marker

\* main.rs:80-86: the loop over binary.syms, from symbol i on: the value of
\* the first symbol whose name resolves and is the marker.
RECURSIVE LastMatch(_, _)
LastMatch(syms, i) ==
    IF i > Len(syms) THEN None
    ELSE LET rest == LastMatch(syms, i + 1) IN
         IF rest # None THEN rest
         ELSE IF syms[i].name # NoName /\ IsMarker(syms[i].name)
              THEN syms[i].value
              ELSE None
RECURSIVE FirstMatch(_, _)
FirstMatch(syms, i) ==
    IF i > Len(syms) THEN None
    ELSE IF syms[i].name # NoName /\ IsMarker(syms[i].name)
         THEN syms[i].value
         ELSE FirstMatch(syms, i + 1)

\* get_rtt_symbol, main.rs:76-92: None when read_to_end or Elf::parse
\* fails.
get_rtt_symbol(file) ==
    IF file.read /\ file.elf THEN FirstMatch(file.syms, 1) ELSE None

\* main.rs:122, 124-126: get_rtt_symbol returns Some(addr) or None.
ScanBinary ==
    /\ pc = "scan"
    /\ addr' = get_rtt_symbol(image)
    /\ pc' = IF addr' # None THEN "cast" ELSE "AttachFailed"
    /\ UNCHANGED <<region, rtt, binary, direct, image>>
    /\ UNCHANGED bindVars
    /\ UNCHANGED loopVars

\* main.rs:123: ScanRegion::Exact(addr as u32)
CastAddr ==
    /\ pc = "cast"
    /\ region' = AsU32(addr)
    /\ pc' = "pinned"
    /\ UNCHANGED <<addr, rtt, binary, direct, image>>
    /\ UNCHANGED bindVars
    /\ UNCHANGED loopVars

PinnedAttachUnchecked ==
    /\ pc = "pinned"
    /\ \E ok \in BOOLEAN :
         /\ pc' = "attached"
         /\ rtt' = IF ok THEN "attached" ELSE rtt
    /\ UNCHANGED <<addr, region, binary, direct, image>>
    /\ UNCHANGED bindVars
    /\ UNCHANGED loopVars

\* main.rs:123: Rtt::attach_region(..)?
PinnedAttach ==
    /\ pc = "pinned"
    /\ \E ok \in BOOLEAN :
         /\ pc' = IF ok THEN "attached" ELSE "AttachFailed"
         /\ rtt' = IF ok THEN "attached" ELSE rtt
    /\ UNCHANGED <<addr, region, binary, direct, image>>
    /\ UNCHANGED bindVars
    /\ UNCHANGED loopVars

\* ------------------------------------------------------- the configuration
\* The temporaries of the match of main.rs:116-132 are dropped at its end.
MatchDropped ==
    /\ binary' = "unread"
    /\ direct' = "untried"
    /\ image' = NoImage
    /\ addr' = None
    /\ region' = None
    /\ UNCHANGED rtt

\* main.rs:135-141: read_to_string and toml::from_str succeed.
LoadConfig ==
    /\ pc = "attached"
    /\ \E c \in Configs : config' = c
    /\ avail' = TargetUp
    /\ MatchDropped
    /\ pc' = "bind"
    /\ UNCHANGED <<collecting, sinks, created>>
    /\ UNCHANGED loopVars

\* main.rs:138 or 141: the file cannot be read, or is no valid configuration.
LoadConfigFail ==
    /\ pc = "attached"
    /\ MatchDropped
    /\ pc' = "ConfigFailed"
    /\ UNCHANGED bindVars
    /\ UNCHANGED loopVars

\* ------------------------------------------------------ binding the sinks
\* rtt.up_channels().take(n), main.rs:148: Some(channel) when the pool
\* still holds channel n.
TakeAlways(pool, n) == TRUE
TakeIsSome(pool, n) == n \in pool

\* The pool after take(n).
TakeRest(pool, n) == pool \ {n}

\* The entry the closure of main.rs:147 is called with next.
Entry == config[Len(collecting) + 1]

\* The Vec after the closure returned the sink of entry x.
CollectedInFront(vec, x) == <<ChannelSink(x)>> \o vec
Collected(vec, x) == Append(vec, ChannelSink(x))

BindMissingAfterCreate ==
    /\ pc = "bind"
    /\ Len(collecting) < Len(config)
    /\ ~TakeIsSome(avail, Entry.up)
    /\ created' = created \cup {Entry.path}
    /\ disk' = [disk EXCEPT ![Entry.path] = <<>>]
    /\ pc' = "BindFailed"
    /\ UNCHANGED attachVars
    /\ UNCHANGED <<config, avail, collecting, sinks>>
    /\ UNCHANGED <<buffer, res, bytes, idx, running, handler, received,
                   stopVisits, stopPasses>>

\* main.rs:148: .expect("Channel missing") panics.
BindMissing ==
    /\ pc = "bind"
    /\ Len(collecting) < Len(config)
    /\ ~TakeIsSome(avail, Entry.up)
    /\ pc' = "BindFailed"
    /\ UNCHANGED attachVars
    /\ UNCHANGED bindVars
    /\ UNCHANGED loopVars

\* main.rs:148, 152: the channel is taken, then File::create fails and
\* .expect("Couldn't create output file") panics.
BindCreateFail ==
    /\ pc = "bind"
    /\ Len(collecting) < Len(config)
    /\ TakeIsSome(avail, Entry.up)
    /\ avail' = TakeRest(avail, Entry.up)
    /\ pc' = "BindFailed"
    /\ UNCHANGED attachVars
    /\ UNCHANGED <<config, collecting, sinks, created>>
    /\ UNCHANGED loopVars

\* main.rs:147-155: the channel is taken, the file is created or truncated,
\* and the closure returns the sink.
BindSink ==
    /\ pc = "bind"
    /\ Len(collecting) < Len(config)
    /\ TakeIsSome(avail, Entry.up)
    /\ avail' = TakeRest(avail, Entry.up)
    /\ created' = created \cup {Entry.path}
    /\ disk' = [disk EXCEPT ![Entry.path] = <<>>]
    /\ collecting' = Collected(collecting, Entry)
    /\ UNCHANGED pc
    /\ UNCHANGED attachVars
    /\ UNCHANGED <<config, sinks>>
    /\ UNCHANGED <<buffer, res, bytes, idx, running, handler, received,
                   stopVisits, stopPasses>>

\* main.rs:143, 156: collect() is done and the Vec becomes sinks.
Collect ==
    /\ pc = "bind"
    /\ Len(collecting) = Len(config)
    /\ sinks' = collecting
    /\ collecting' = <<>>
    /\ pc' = "handler"
    /\ UNCHANGED attachVars
    /\ UNCHANGED <<config, avail, created>>
    /\ UNCHANGED loopVars

\* main.rs:162-169: ctrlc::set_handler succeeds.
InstallHandler ==
    /\ pc = "handler"
    /\ handler' = TRUE
    /\ pc' = "loop_head"
    /\ UNCHANGED attachVars
    /\ UNCHANGED bindVars
    /\ UNCHANGED <<disk, buffer, res, bytes, idx, running, received,
                   stopVisits, stopPasses>>

\* main.rs:169: .expect("Error setting Ctrl-C handler") panics.
InstallHandlerFail ==
    /\ pc = "handler"
    /\ pc' = "HandlerFailed"
    /\ UNCHANGED attachVars
    /\ UNCHANGED bindVars
    /\ UNCHANGED loopVars

\* --------------------------------------------------------- the capture loop
InLoop == pc \in {"loop_head", "visit", "match"}

\* main.rs:165-168: the handler runs, on another thread, at any point of the
\* loop.
CtrlC ==
    /\ handler
    /\ InLoop
    /\ running' = FALSE
    /\ UNCHANGED pc
    /\ UNCHANGED attachVars
    /\ UNCHANGED bindVars
    /\ UNCHANGED <<disk, buffer, res, bytes, idx, handler, received,
                   stopVisits, stopPasses>>

\* The condition of the while of main.rs:171.
LoopConditionTrue(r) == TRUE
LoopCondition(r) == r

LoopHeadAborts ==
    /\ pc = "loop_head"
    /\ IF LoopCondition(running)
       THEN pc' = "visit" /\ idx' = 1
       ELSE pc' = "Aborted" /\ idx' = 0
    /\ UNCHANGED attachVars
    /\ UNCHANGED bindVars
    /\ UNCHANGED <<disk, buffer, res, bytes, running, handler, received,
                   stopVisits, stopPasses>>

\* main.rs:171: running.load(); the pass begins, or the loop is left for
\* main.rs:193-195.
LoopHead ==
    /\ pc = "loop_head"
    /\ IF LoopCondition(running)
       THEN pc' = "visit" /\ idx' = 1
       ELSE pc' = "Closed" /\ idx' = 0
    /\ UNCHANGED attachVars
    /\ UNCHANGED bindVars
    /\ UNCHANGED <<disk, buffer, res, bytes, running, handler, received,
                   stopVisits, stopPasses>>

\* main.rs:173, 192: the for loop has no sink left; back to the while.
EndPass ==
    /\ pc = "visit"
    /\ idx > Len(sinks)
    /\ pc' = "loop_head"
    /\ idx' = 0
    /\ stopPasses' = IF running THEN stopPasses ELSE stopPasses + 1
    /\ UNCHANGED attachVars
    /\ UNCHANGED bindVars
    /\ UNCHANGED <<disk, buffer, res, bytes, running, handler, received,
                   stopVisits>>

\* The for loop steps to sinks[idx].
AtSink == pc = "visit" /\ idx \in 1..Len(sinks)

Visited == stopVisits' = IF running THEN stopVisits ELSE stopVisits + 1

\* The sinks after the write of ss[i] failed, main.rs:183.
DisableAll(ss, i) == [j \in 1..Len(ss) |-> [ss[j] EXCEPT !.working = FALSE]]
Disable(ss, i) == [ss EXCEPT ![i].working = FALSE]

\* main.rs:174: the sink is skipped.
SkipsNone(sink) == FALSE
Skips(sink) == ~sink.working

\* main.rs:174-176: continue.
SkipSink ==
    /\ AtSink
    /\ Skips(sinks[idx])
    /\ idx' = idx + 1
    /\ Visited
    /\ UNCHANGED pc
    /\ UNCHANGED attachVars
    /\ UNCHANGED bindVars
    /\ UNCHANGED <<disk, buffer, res, bytes, running, handler, received,
                   stopPasses>>

\* The buffer after the library stored data in its leading cells.
Filled(buf, data) ==
    [k \in 1..Len(buf) |-> IF k <= Len(data) THEN data[k] ELSE buf[k]]

\* Every chunk a read can store: at least one byte, at most n.
Chunks(n) == UNION { [1..k -> Byte] : k \in 1..n }

\* main.rs:177: read returns Err; the library may have stored bytes in the
\* buffer before it failed.
ReadError ==
    /\ AtSink
    /\ ~Skips(sinks[idx])
    /\ \/ UNCHANGED buffer
       \/ \E data \in Chunks(Min(MaxData, BufferSize)) :
            buffer' = Filled(buffer, data)
    /\ res' = "err"
    /\ pc' = "match"
    /\ Visited
    /\ UNCHANGED attachVars
    /\ UNCHANGED bindVars
    /\ UNCHANGED <<disk, bytes, idx, running, handler, received, stopPasses>>

\* main.rs:177: read returns Ok(0).
ReadZero ==
    /\ AtSink
    /\ ~Skips(sinks[idx])
    /\ res' = "ok"
    /\ bytes' = 0
    /\ pc' = "match"
    /\ Visited
    /\ UNCHANGED attachVars
    /\ UNCHANGED bindVars
    /\ UNCHANGED <<disk, buffer, idx, running, handler, received, stopPasses>>

\* main.rs:177: read returns Ok(bytes), bytes > 0, with the bytes in the
\* leading cells of the buffer.
ReadData ==
    /\ AtSink
    /\ ~Skips(sinks[idx])
    /\ \E data \in Chunks(Min(MaxData, BufferSize)) :
         /\ Len(received[idx]) + Len(data) <= MaxData
         /\ buffer' = Filled(buffer, data)
         /\ bytes' = Len(data)
         /\ received' = [received EXCEPT ![idx] = @ \o data]
    /\ res' = "ok"
    /\ pc' = "match"
    /\ Visited
    /\ UNCHANGED attachVars
    /\ UNCHANGED bindVars
    /\ UNCHANGED <<disk, idx, running, handler, stopPasses>>

\* The arm the match of main.rs:178-190 takes.
Arm(r, n) ==
    IF r = "ok" /\ n > 0 THEN "write"
    ELSE IF r = "err" THEN "report"
    ELSE "nothing"

NextSinkStays ==
    /\ res' = "none"
    /\ bytes' = 0
    /\ idx' = IF res = "ok" /\ bytes > 0 THEN idx ELSE idx + 1
    /\ pc' = "visit"

\* The end of the for body: res is dropped and the loop steps on.
NextSink ==
    /\ res' = "none"
    /\ bytes' = 0
    /\ idx' = idx + 1
    /\ pc' = "visit"

MatchErrDisables ==
    /\ pc = "match"
    /\ Arm(res, bytes) = "report"
    /\ NextSink
    /\ sinks' = Disable(sinks, idx)
    /\ UNCHANGED attachVars
    /\ UNCHANGED <<config, avail, collecting, created>>
    /\ UNCHANGED <<disk, buffer, running, handler, received, stopVisits,
                   stopPasses>>

\* main.rs:186-188: the error is printed.
MatchErr ==
    /\ pc = "match"
    /\ Arm(res, bytes) = "report"
    /\ NextSink
    /\ UNCHANGED attachVars
    /\ UNCHANGED bindVars
    /\ UNCHANGED <<disk, buffer, running, handler, received, stopVisits,
                   stopPasses>>

MatchEmptyBreaks ==
    /\ pc = "match"
    /\ Arm(res, bytes) = "nothing"
    /\ res' = "none"
    /\ bytes' = 0
    /\ idx' = 0
    /\ pc' = "loop_head"
    /\ UNCHANGED attachVars
    /\ UNCHANGED bindVars
    /\ UNCHANGED <<disk, buffer, running, handler, received, stopVisits,
                   stopPasses>>

\* main.rs:189: Ok(_) => {}
MatchEmpty ==
    /\ pc = "match"
    /\ Arm(res, bytes) = "nothing"
    /\ NextSink
    /\ UNCHANGED attachVars
    /\ UNCHANGED bindVars
    /\ UNCHANGED <<disk, buffer, running, handler, received, stopVisits,
                   stopPasses>>

\* &buffer[..bytes], main.rs:181.
SliceWhole(buf, n) == buf
Slice(buf, n) == SubSeq(buf, 1, n)

\* The file after data was written at position pos of it.
WriteAt(content, pos, data) ==
    SubSeq(content, 1, pos) \o data
        \o SubSeq(content, pos + Len(data) + 1, Len(content))

\* The handle after n bytes were written through it.
Advance(file, n) == [file EXCEPT !.pos = @ + n]

\* The disk after data went into the file of sink, at the position of its
\* handle.
DiskWritten(d, sink, data) ==
    [d EXCEPT ![sink.file.path] = WriteAt(@, sink.file.pos, data)]

\* The sinks after n bytes went through the handle of ss[i].
SinksWritten(ss, i, n) == [ss EXCEPT ![i].file = Advance(@, n)]

\* main.rs:181: write_all returns Ok: the whole slice is in the file.
WriteOk ==
    /\ pc = "match"
    /\ Arm(res, bytes) = "write"
    /\ LET data == Slice(buffer, bytes)
       IN /\ disk' = DiskWritten(disk, sinks[idx], data)
          /\ sinks' = SinksWritten(sinks, idx, Len(data))
    /\ NextSink
    /\ UNCHANGED attachVars
    /\ UNCHANGED <<config, avail, collecting, created>>
    /\ UNCHANGED <<buffer, running, handler, received, stopVisits, stopPasses>>

WriteFailRetries ==
    /\ pc = "match"
    /\ Arm(res, bytes) = "write"
    /\ sinks[idx].working
    /\ LET data == Slice(buffer, bytes)
       IN \E n \in 0..(Len(data) - 1) :
            /\ disk' = DiskWritten(disk, sinks[idx], SubSeq(data, 1, n))
            /\ sinks' = Disable(SinksWritten(sinks, idx, n), idx)
    /\ UNCHANGED <<pc, idx, res, bytes>>
    /\ UNCHANGED attachVars
    /\ UNCHANGED <<config, avail, collecting, created>>
    /\ UNCHANGED <<buffer, running, handler, received, stopVisits, stopPasses>>

WriteFailPanics ==
    /\ pc = "match"
    /\ Arm(res, bytes) = "write"
    /\ pc' = "WriteFailed"
    /\ UNCHANGED attachVars
    /\ UNCHANGED bindVars
    /\ UNCHANGED <<disk, buffer, res, bytes, idx, running, handler, received,
                   stopVisits, stopPasses>>

\* main.rs:181-184: write_all returns Err, after it wrote none or some, but
\* not all, of the slice.
WriteFail ==
    /\ pc = "match"
    /\ Arm(res, bytes) = "write"
    /\ LET data == Slice(buffer, bytes)
       IN \E n \in 0..(Len(data) - 1) :
            /\ disk' = DiskWritten(disk, sinks[idx], SubSeq(data, 1, n))
            /\ sinks' = Disable(SinksWritten(sinks, idx, n), idx)
    /\ NextSink
    /\ UNCHANGED attachVars
    /\ UNCHANGED <<config, avail, collecting, created>>
    /\ UNCHANGED <<buffer, running, handler, received, stopVisits, stopPasses>>

\* main.rs:171-192: the steps of the thread that runs the loop.
LoopProgress ==
    \/ LoopHead
    \/ EndPass
    \/ SkipSink
    \/ ReadError
    \/ ReadZero
    \/ ReadData
    \/ MatchErr
    \/ MatchEmpty
    \/ WriteOk
    \/ WriteFail

Next ==
    \/ DirectAttach
    \/ OpenBinary
    \/ ScanBinary
    \/ CastAddr
    \/ PinnedAttach
    \/ LoadConfig
    \/ LoadConfigFail
    \/ BindMissing
    \/ BindCreateFail
    \/ BindSink
    \/ Collect
    \/ InstallHandler
    \/ InstallHandlerFail
    \/ CtrlC
    \/ LoopHead
    \/ EndPass
    \/ SkipSink
    \/ ReadError
    \/ ReadZero
    \/ ReadData
    \/ MatchErr
    \/ MatchEmpty
    \/ WriteOk
    \/ WriteFail

Spec == Init /\ [][Next]_vars

\* The thread of main keeps running: every call it makes returns, so it
\* takes its next step of the loop.
LiveSpec == Init /\ [][Next]_vars /\ WF_vars(LoopProgress)

\* ================================================================ claims
SinkIds == 1..Len(sinks)

\* The file of sink i, as it is on disk.
FileOf(i) == disk[sinks[i].file.path]

\* No other sink was configured with the output file of sink i.
Alone(i) == \A j \in SinkIds : j # i => sinks[j].file.path # sinks[i].file.path

\* This step is the failing write of sink k.
WriteFails(k) == k \in SinkIds /\ sinks[k].working /\ ~sinks'[k].working

\* A step of the loop at a working sink reads it: it is never stepped over.
WorkingIsRead ==
    (AtSink /\ sinks[idx].working /\ <<pc, idx>>' # <<pc, idx>>)
        => (pc' = "match" /\ idx' = idx /\ res' # "none")

\* This step is a write_all of sink idx that returns Ok.
WriteSucceeds ==
    /\ pc = "match" /\ Arm(res, bytes) = "write"
    /\ pc' = "visit" /\ sinks'[idx].working

\* C1 as stated: a write failure on sink k changes no other sink's working
\* flag and no other sink's file content.
C1_AsStated ==
    [][\A k \in SinkIds : WriteFails(k) =>
         \A j \in SinkIds \ {k} :
            /\ sinks'[j].working = sinks[j].working
            /\ disk'[sinks[j].file.path] = FileOf(j)]_vars

\* C1, amended: a write failure on sink k happens in the write step of sink
\* k, leaves every other sink record as it was and changes no file but the
\* one sink k writes to; afterwards a working sink the loop steps to is
\* still read, and a successful write appends the bytes read to the file of
\* a sink that shares it with no other sink.
C1_FailureIsolation ==
    [][/\ \A k \in SinkIds : WriteFails(k) =>
            /\ pc = "match" /\ idx = k /\ Arm(res, bytes) = "write"
            /\ \A j \in SinkIds \ {k} : sinks'[j] = sinks[j]
            /\ \A p \in Paths : p # sinks[k].file.path => disk'[p] = disk[p]
       /\ WorkingIsRead
       /\ (WriteSucceeds /\ Alone(idx)) =>
            disk'[sinks[idx].file.path] = FileOf(idx) \o SubSeq(buffer, 1, bytes)
      ]_vars

\* C1: sink 1 is disabled and sink 2, on another file, has just been read
\* and is about to be written.
C1_Witness ==
    /\ Len(sinks) = 2
    /\ ~sinks[1].working
    /\ sinks[2].working
    /\ Alone(2)
    /\ pc = "match" /\ idx = 2 /\ Arm(res, bytes) = "write"

\* C2 as stated: working starts true, only falls, and only on a write
\* failure of that sink; once false, the sink's channel is not read again
\* and its file is not written again.
C2_AsStated ==
    /\ [](pc = "handler" => \A i \in SinkIds : sinks[i].working)
    /\ [][\A k \in SinkIds :
            /\ WriteFails(k) => pc = "match" /\ idx = k /\ Arm(res, bytes) = "write"
            /\ ~sinks[k].working =>
                 /\ ~sinks'[k].working
                 /\ received'[k] = received[k]
                 /\ ~(idx' = k /\ pc' = "match")
                 /\ disk'[sinks[k].file.path] = FileOf(k)]_vars

\* C2, amended: as stated, except that once working is false nothing is
\* written again through the sink's own handle; its file stays as it is when
\* no other sink shares it.
C2_OneWay ==
    /\ [](pc = "handler" => \A i \in SinkIds : sinks[i].working)
    /\ [][\A k \in SinkIds :
            /\ WriteFails(k) => pc = "match" /\ idx = k /\ Arm(res, bytes) = "write"
            /\ ~sinks[k].working =>
                 /\ sinks'[k] = sinks[k]
                 /\ received'[k] = received[k]
                 /\ ~(idx' = k /\ pc' = "match")
                 /\ Alone(k) => disk'[sinks[k].file.path] = FileOf(k)]_vars

\* C2: a later pass has come round to the disabled sink 1 while its channel
\* has handed out less than it can.
C2_Witness ==
    /\ Len(sinks) = 2
    /\ ~sinks[1].working
    /\ pc = "visit" /\ idx = 1
    /\ Len(received[1]) < MaxData
    /\ received[2] # <<>>

\* C3: a read error leaves every sink record and every file as it was, the
\* loop steps on to the next sink, and the sink, still working, is read
\* when the loop steps to it again.
C3_ReadErrorHarmless ==
    [][/\ (res' = "err" /\ res # "err") => (sinks' = sinks /\ disk' = disk)
       /\ (pc = "match" /\ res = "err" /\ pc' # pc) =>
            /\ sinks' = sinks
            /\ sinks[idx].working
            /\ disk' = disk
            /\ pc' = "visit" /\ idx' = idx + 1
       /\ WorkingIsRead]_vars

\* C3: the read of sink 1 of 2 has returned an error, with data of an
\* earlier read in its file.
C3_Witness ==
    /\ Len(sinks) = 2
    /\ pc = "match" /\ res = "err" /\ idx = 1
    /\ FileOf(1) # <<>>

\* The bytes of sink i that were read and are not written yet.
InFlight(i) ==
    IF pc = "match" /\ idx = i /\ Arm(res, bytes) = "write"
    THEN SubSeq(buffer, 1, bytes)
    ELSE <<>>

\* C4 as stated: the file of every sink that had no write failure holds
\* exactly the chunks read from the sink's own channel, in read order.
C4_AsStated ==
    \A i \in SinkIds : sinks[i].working => FileOf(i) \o InFlight(i) = received[i]

\* C4, amended: the same, for every sink whose output file no other sink
\* was configured with.
C4_FileIsStream ==
    \A i \in SinkIds :
        (sinks[i].working /\ Alone(i)) => FileOf(i) \o InFlight(i) = received[i]

\* C4: both sinks have data in their own files, the files differ, and one
\* byte is about to be written from a buffer whose second cell holds a byte
\* of an earlier read.
C4_Witness ==
    /\ Len(sinks) = 2
    /\ sinks[1].working /\ sinks[2].working
    /\ Alone(1)
    /\ FileOf(1) # <<>> /\ FileOf(2) # <<>> /\ FileOf(1) # FileOf(2)
    /\ pc = "match" /\ Arm(res, bytes) = "write" /\ bytes = 1
    /\ buffer[2] # 0

\* C5: a read of zero bytes changes no sink record (no write position, no
\* working flag) and no file, and the loop steps on to the next sink.
C5_ZeroIsNoOp ==
    [][/\ (pc = "visit" /\ pc' = "match" /\ res' = "ok" /\ bytes' = 0) =>
            (sinks' = sinks /\ disk' = disk)
       /\ (pc = "match" /\ res = "ok" /\ bytes = 0 /\ pc' # pc) =>
            /\ sinks' = sinks
            /\ sinks[idx].working
            /\ disk' = disk
            /\ pc' = "visit" /\ idx' = idx + 1]_vars

\* C5: a read of sink 1 of 2, whose file holds data, has returned zero bytes.
C5_Witness ==
    /\ Len(sinks) = 2
    /\ pc = "match" /\ res = "ok" /\ bytes = 0 /\ idx = 1
    /\ FileOf(1) # <<>>

\* C6: after the handler stored false the for loop steps to at most as many
\* sinks as there are and finishes at most one pass, and the loop is left
\* only with the flag false.
C6_CancellationBound ==
    /\ stopVisits <= Len(sinks)
    /\ stopPasses <= 1
    /\ (stopPasses = 1 => pc \in {"loop_head", "Closed"})
    /\ (pc = "Closed" => ~running)

\* C6: the flag fell between the load and the first sink, and the loop
\* made one whole pass over two sinks before it closed.
C6_Witness ==
    /\ pc = "Closed"
    /\ Len(sinks) = 2
    /\ stopVisits = 2
    /\ stopPasses = 1

\* An entry of c asks for a channel the target does not offer, or for one
\* an earlier entry asked for.
BadIndex(c) ==
    \E i \in 1..Len(c) :
        \/ c[i].up \notin TargetUp
        \/ \E j \in 1..(i - 1) : c[j].up = c[i].up

\* main is past the collect of main.rs:156.
AfterBind ==
    pc \in {"handler", "HandlerFailed", "loop_head", "visit", "match", "Closed"}

NothingRead == res = "none" /\ \A i \in DOMAIN received : received[i] = <<>>

\* C7: sinks exist, and main is past binding, only with every entry bound
\* (its channel taken out of the pool, its file created); a configuration
\* with a missing or repeated channel number, like any failed binding,
\* never gets past binding, has no sinks and reads nothing.
C7_AllOrNothing ==
    /\ (AfterBind \/ sinks # <<>>) =>
          /\ AfterBind
          /\ Len(sinks) = Len(config)
          /\ \A i \in 1..Len(config) :
                /\ sinks[i].channel = config[i].up
                /\ config[i].up \in TargetUp \ avail
                /\ config[i].path \in created
    /\ (pc = "BindFailed" \/ BadIndex(config)) =>
          /\ pc \in {"bind", "BindFailed"}
          /\ sinks = <<>>
          /\ NothingRead
    /\ ~AfterBind => NothingRead

\* C7: binding failed at the second entry, after the first was bound.
C7_Witness ==
    /\ pc = "BindFailed"
    /\ BadIndex(config)
    /\ Len(collecting) = 1
    /\ created # {}

\* C8: past binding the channel numbers are distinct and offered, and sinks
\* holds one sink per entry, in the order of the entries, with the entry's
\* channel, name and file, all working and unwritten when binding ends; no
\* step of the loop changes the number, order, channel, name or file of the
\* sinks.
C8_BindingFaithful ==
    /\ [](AfterBind =>
            /\ ~BadIndex(config)
            /\ Len(sinks) = Len(config)
            /\ \A i \in 1..Len(config) :
                  /\ sinks[i].channel = config[i].up
                  /\ sinks[i].name = config[i].name
                  /\ sinks[i].file.path = config[i].path
            /\ \A i, j \in SinkIds : i # j => sinks[i].channel # sinks[j].channel
            /\ pc = "handler" =>
                  \A i \in SinkIds : sinks[i].working /\ sinks[i].file.pos = 0)
    /\ [][AfterBind =>
            /\ config' = config
            /\ Len(sinks') = Len(sinks)
            /\ \A i \in SinkIds :
                  /\ sinks'[i].channel = sinks[i].channel
                  /\ sinks'[i].name = sinks[i].name
                  /\ sinks'[i].file.path = sinks[i].file.path]_vars

\* C8: the loop ran and closed over two sinks bound in an order that is not
\* the order of the channel numbers, one of them disabled meanwhile.
C8_Witness ==
    /\ pc = "Closed"
    /\ Len(sinks) = 2
    /\ sinks[1].channel = 1 /\ sinks[2].channel = 0
    /\ ~sinks[2].working
    /\ disk[sinks[1].file.path] # <<>>

AttachEnded == pc \notin {"direct", "open", "scan", "cast", "pinned"}

\* C9: main has an Rtt exactly when the direct attach succeeded, or failed
\* with an image path given, an image opened, a symbol found and the pinned
\* attach done; every other outcome ends in AttachFailed, which nothing
\* leaves, with no configuration read, no file created and no sink; the
\* direct attach is not tried twice.
C9_AttachOutcome ==
    /\ [](/\ pc = "attached" =>
              \/ direct = "ok" /\ addr = None /\ region = None
              \/ /\ direct = "err" /\ binary = "some"
                 /\ addr \in U64Samples /\ region # None
          /\ (rtt = "attached") <=> (AttachEnded /\ pc # "AttachFailed")
          /\ pc = "AttachFailed" =>
                /\ direct = "err"
                /\ binary = "none" => (addr = None /\ region = None)
                /\ config = <<>> /\ created = {} /\ sinks = <<>>
                /\ NothingRead)
    /\ [][/\ pc = "AttachFailed" => pc' = "AttachFailed"
          /\ pc' = "direct" => pc = "direct"
          /\ (pc = "direct" /\ pc' # pc) =>
                /\ direct' = "ok" => pc' = "attached"
                /\ (direct' = "err" /\ binary' = "none") => pc' = "AttachFailed"
                /\ (direct' = "err" /\ binary' = "some") => pc' = "open"
          /\ (pc = "open" /\ pc' # pc) => pc' \in {"scan", "AttachFailed"}
          /\ (pc = "scan" /\ pc' # pc) =>
                (IF addr' = None THEN pc' = "AttachFailed" ELSE pc' = "cast")
          /\ (pc = "pinned" /\ pc' # pc) => pc' \in {"attached", "AttachFailed"}
         ]_vars

\* C9: main holds an Rtt that the pinned attach of the fallback gave it.
C9_Witness ==
    /\ pc = "attached"
    /\ direct = "err"
    /\ binary = "some"
    /\ rtt = "attached"

\* C10 as stated: the address given to the pinned attach is the address
\* get_rtt_symbol returned.
C10_AsStated == region # None => Widen(region) = addr

\* The symbols of image f whose name is exactly the marker.
Matching(f) == { i \in 1..Len(f.syms) : f.syms[i].name = Marker }

\* get_rtt_symbol has just returned.
Scanned == pc = "scan" /\ pc' # pc

\* C11: get_rtt_symbol returns the value of the marker symbol of a valid
\* image that holds exactly one, whatever else the table holds; None for a
\* valid image with no symbol of exactly that name; None for content that
\* cannot be read or is no image; and main goes on from its result.
C11_ScannerContract ==
    [][Scanned =>
         /\ (image.read /\ image.elf /\ Cardinality(Matching(image)) = 1) =>
               addr' = image.syms[CHOOSE i \in Matching(image) : TRUE].value
         /\ (image.read /\ image.elf /\ Matching(image) = {}) => addr' = None
         /\ (~image.read \/ ~image.elf) => addr' = None
         /\ pc' = IF addr' = None THEN "AttachFailed" ELSE "cast"]_vars

\* C11: the one marker symbol of the image was found behind a symbol whose
\* name starts with the marker and one whose name ends with it.
C11_Witness ==
    /\ pc = "cast"
    /\ Len(image.syms) = 3
    /\ image.syms[1].name = <<"_SEGGER_RTT", "_UP">>
    /\ image.syms[2].name = <<"x", "_SEGGER_RTT">>
    /\ image.syms[3].name = Marker
    /\ image.syms[1].value # image.syms[3].value
    /\ addr = image.syms[3].value

\* C12: a step taken in the loop stays in the loop, whatever a read or a
\* write returned, unless it is the load of main.rs:171 finding the flag
\* false; and in the loop the main thread always has a next step, also with
\* every sink disabled.
C12_NoFatalRuntime ==
    /\ [][InLoop =>
            \/ pc' \in {"loop_head", "visit", "match"}
            \/ pc' = "Closed" /\ pc = "loop_head" /\ ~running]_vars
    /\ [](InLoop => ENABLED LoopProgress)

\* C12: both sinks are disabled, the flag is still true and a further pass
\* has begun.
C12_Witness ==
    /\ Len(sinks) = 2
    /\ \A i \in SinkIds : ~sinks[i].working
    /\ running
    /\ pc = "visit" /\ idx = 1

\* C13: once the handler has stored false while main is in the loop, main
\* reaches the "Closed" notice of main.rs:193 and returns Ok(()).
C13_CleanShutdown == (InLoop /\ ~running) ~> (pc = "Closed")

\* C13: main closed after the interrupt with one sink working and one
\* disabled, each channel having handed out all the data it can.
C13_Witness ==
    /\ pc = "Closed"
    /\ ~running
    /\ Len(sinks) = 2
    /\ sinks[1].working /\ ~sinks[2].working
    /\ \A i \in SinkIds : Len(received[i]) = MaxData

\* main has not got past the configuration.
BeforeBind ==
    pc \in {"direct", "open", "scan", "cast", "pinned", "attached",
            "AttachFailed", "ConfigFailed"}

\* C14: a file has been created or truncated only with an Rtt attached and
\* the configuration loaded; while main is attaching or loading, and when
\* it ended in AttachFailed or ConfigFailed, no path has been created and
\* every file is as it was.
C14_NoFileWithoutAttach ==
    /\ created # {} => (rtt = "attached" /\ ~BeforeBind)
    /\ BeforeBind => created = {}
    /\ \A p \in Paths : p \notin created => disk[p] = <<>>

\* C14: the pinned attach of the fallback failed and main ended with no
\* file touched.
C14_Witness ==
    /\ pc = "AttachFailed"
    /\ region # None
    /\ rtt = "none"
    /\ created = {}

InPass == pc \in {"visit", "match"}

\* C15: in a pass the for loop only stays at a sink or steps to the next
\* one, starting at the first; a working sink it steps to is read, and the
\* step after its read moves on to the next sink, so it is read once; the
\* pass is left only behind the last sink, whatever the flag is.
C15_PassOrder ==
    [][/\ (pc = "loop_head" /\ pc' # pc /\ pc' # "Closed") =>
             (pc' = "visit" /\ idx' = 1)
       /\ InPass =>
             \/ InPass' /\ idx' = idx /\ pc' = pc
             \/ pc = "visit" /\ pc' = "match" /\ idx' = idx
                   /\ idx \in SinkIds /\ sinks[idx].working
             \/ pc = "visit" /\ pc' = "visit" /\ idx' = idx + 1
                   /\ idx \in SinkIds /\ ~sinks[idx].working
             \/ pc = "match" /\ pc' = "visit" /\ idx' = idx + 1
             \/ pc = "visit" /\ pc' = "loop_head" /\ idx = Len(sinks) + 1
      ]_vars

\* C15: the flag fell after the first of two sinks was visited, and the
\* second sink has been read all the same.
C15_Witness ==
    /\ Len(sinks) = 2
    /\ ~running
    /\ pc = "match" /\ idx = 2
    /\ stopVisits = 1
    /\ res = "ok" /\ bytes > 0

\* C16: a successful direct attach leaves main at "attached" with no image
\* opened, no symbol looked up and no region computed, with or without an
\* image path; the steps of the fallback are taken only after a failed
\* direct attach with an image path, each from the one before it, and the
\* direct attach is never gone back to, so each is taken at most once.
C16_FallbackOnlyAfterFailure ==
    /\ [](/\ direct = "ok" =>
                (pc = "attached" /\ image = NoImage /\ addr = None /\ region = None)
          /\ pc \in {"open", "scan", "cast", "pinned"} =>
                (direct = "err" /\ binary = "some"))
    /\ [][/\ pc' = "direct" => pc = "direct"
          /\ (pc' = "open" /\ pc # "open") => (pc = "direct" /\ direct' = "err")
          /\ (pc' = "scan" /\ pc # "scan") => pc = "open"
          /\ (pc' = "cast" /\ pc # "cast") => pc = "scan"
          /\ (pc' = "pinned" /\ pc # "pinned") => pc = "cast"
          /\ (image' # image) => (pc = "open" \/ pc = "attached")
          /\ (addr' # addr) => (pc = "scan" \/ pc = "attached")
          /\ (region' # region) => (pc = "cast" \/ pc = "attached")]_vars

\* C16: the direct attach succeeded although an image path was given.
C16_Witness ==
    /\ pc = "attached"
    /\ direct = "ok"
    /\ binary = "some"
    /\ image = NoImage

\* The least index of a non-empty set of table indices.
Lowest(S) == CHOOSE i \in S : \A j \in S : i <= j

\* C17: of an image that reads and parses with one or more symbols named
\* exactly "_SEGGER_RTT", the scan returns the value of the one that comes
\* first in the table: the value of a matching symbol, whatever the
\* symbols before it are.
C17_FirstMatchWins ==
    [][(Scanned /\ image.read /\ image.elf /\ Matching(image) # {}) =>
          /\ addr' = image.syms[Lowest(Matching(image))].value
          /\ \E i \in Matching(image) : addr' = image.syms[i].value
          /\ pc' = "cast"]_vars

\* C17: the table holds a symbol of another name and then two marker
\* symbols of different values; the scan returned the value of the first
\* of the two.
C17_Witness ==
    /\ pc = "cast"
    /\ image.read /\ image.elf
    /\ Len(image.syms) = 3
    /\ Matching(image) = {2, 3}
    /\ image.syms[2].value # image.syms[3].value
    /\ image.syms[1].value # image.syms[2].value
    /\ addr = image.syms[2].value

\* The entry binding stands at, or failed at.
AtEntry == Len(collecting) + 1

\* The paths and the channels of the entries before entry k.
PathsBefore(k) == { config[j].path : j \in 1..(k - 1) }
UpsBefore(k) == { config[j].up : j \in 1..(k - 1) }

\* Entry k finds its channel gone: the target has none of that number, or
\* an entry before k took it.
MissingAt(k) == config[k].up \notin (TargetUp \ UpsBefore(k))

\* C18 as stated: when binding failed at entry k, the files of the entries
\* before k are created, those of the entries after k are untouched, and so
\* is the file of entry k when its channel was missing.
C18_AsStated ==
    pc = "BindFailed" =>
        /\ \A j \in 1..(AtEntry - 1) : config[j].path \in created
        /\ \A j \in (AtEntry + 1)..Len(config) : config[j].path \notin created
        /\ MissingAt(AtEntry) => config[AtEntry].path \notin created

\* C18, amended: binding goes through the entries in order, and at entry k
\* the created or truncated paths are exactly those of the entries before k
\* and the channels taken exactly theirs; when it fails at k this stays so,
\* the file of entry k or of a later entry is untouched unless an entry
\* before k names the same path, and when the failure is the creation the
\* channel of entry k is already taken.
C18_BindingFrame ==
    /\ [](pc \in {"bind", "BindFailed"} =>
            /\ created = PathsBefore(AtEntry)
            /\ \A p \in Paths : disk[p] = <<>>
            /\ pc = "bind" => avail = TargetUp \ UpsBefore(AtEntry)
            /\ pc = "BindFailed" =>
                 /\ AtEntry \in 1..Len(config)
                 /\ avail = TargetUp \ UpsBefore(AtEntry + 1)
                 /\ \A j \in AtEntry..Len(config) :
                        config[j].path \notin PathsBefore(AtEntry) =>
                            config[j].path \notin created)
    /\ [][/\ pc # "BindFailed"
          /\ (pc = "bind" /\ collecting' # collecting /\ pc' = "bind") =>
                /\ Len(collecting') = Len(collecting) + 1
                /\ created' = created \cup {config[AtEntry].path}
                /\ avail' = avail \ {config[AtEntry].up}
                /\ config[AtEntry].up \in avail]_vars

\* C18: binding failed at the second entry because the target has no
\* channel of its number; the file of the first entry is created and the
\* second entry's own file, another path, is not.
C18_Witness ==
    /\ pc = "BindFailed"
    /\ AtEntry = 2
    /\ MissingAt(2)
    /\ config[1].path \in created
    /\ config[2].path # config[1].path
    /\ config[2].path \notin created

\* Sequence a is the beginning of sequence b.
IsPrefix(a, b) == Len(a) <= Len(b) /\ SubSeq(b, 1, Len(a)) = a

\* C19 as stated: after a write failure the file of the sink is a prefix of
\* all the bytes read from its channel.
C19_AsStated ==
    \A i \in SinkIds : ~sinks[i].working => IsPrefix(FileOf(i), received[i])

\* C19, amended: the step whose write fails reads nothing more and steps on
\* with the sink disabled, the bytes of its read being the last ones
\* received; from then on the bytes received of the sink and its handle do
\* not change, and when no other sink was configured with its output file,
\* the file is a prefix of the bytes received, shorter than them, and does
\* not change.
C19_NoRetry ==
    /\ [](\A i \in SinkIds : (~sinks[i].working /\ Alone(i)) =>
            /\ IsPrefix(FileOf(i), received[i])
            /\ Len(FileOf(i)) < Len(received[i]))
    /\ [][/\ \A i \in SinkIds : ~sinks[i].working =>
                /\ received'[i] = received[i]
                /\ sinks'[i] = sinks[i]
                /\ Alone(i) => disk'[sinks[i].file.path] = FileOf(i)
          /\ \A k \in SinkIds : WriteFails(k) =>
                /\ pc = "match" /\ idx = k /\ Arm(res, bytes) = "write"
                /\ received' = received
                /\ SubSeq(received[k], Len(received[k]) - bytes + 1,
                          Len(received[k])) = Slice(buffer, bytes)
                /\ pc' = "visit" /\ idx' = k + 1]_vars

\* C19: the write of the first sink failed after one of two bytes, the
\* second sink has been written since, and a later pass is at the first
\* sink again.
C19_Witness ==
    /\ Len(sinks) = 2
    /\ ~sinks[1].working /\ Alone(1)
    /\ Len(FileOf(1)) = 1 /\ Len(received[1]) = 2
    /\ sinks[2].working /\ FileOf(2) # <<>>
    /\ pc = "visit" /\ idx = 1

====
